---------------------------- MODULE Spec2Model ----------------------------
(***************************************************************************)
(* Model of the `migrate` planner/executor (crate migrate-core):           *)
(*   - diff::diff             reconciles the configured migration list     *)
(*                            with the persisted applied-migrations list;  *)
(*   - PlanBuilder::build     lock, fetch, decode, diff, select;           *)
(*   - Plan::exec / try_exec  script loop, save-on-exit, unlock;           *)
(*   - CtxRegistry::get_mut   lazily created migration contexts;           *)
(*   - State::encode/decode   the versioned state codec.                   *)
(* Vectors are sequences; Rust's 0-based indices are kept in the helper    *)
(* operators and converted where a sequence is subscripted.                *)
(***************************************************************************)
EXTENDS Integers, Sequences, FiniteSets, TLC

\* ------------------------------------------------------------------ bounds
\* number of distinct migration names in play
NumNames == 3
\* longest configured migration list a builder is given
MaxLen == 3
\* number of distinct migration context types
NumCtx == 2

NamePool == <<"mig-0", "mig-1", "mig-2", "mig-3", "mig-4", "mig-5", "mig-6">>
Names == {NamePool[i] : i \in 1..NumNames}

CtxPool == <<"CtxA", "CtxB", "CtxC", "CtxD">>
CtxTypes == {CtxPool[i] : i \in 1..NumCtx}

\* Option::None for an index or a name
None == -1
NoBound == "<none>"

\* ------------------------------------------------------- vector helpers
names_of(list) == {list[i] : i \in 1..Len(list)}

\* Iterator::position: 0-based index of the first match, or None
position(list, name) ==
    IF \E i \in 1..Len(list) : list[i] = name
    THEN (CHOOSE i \in 1..Len(list) :
              list[i] = name /\ \A j \in 1..(i - 1) : list[j] # name) - 1
    ELSE None

\* Vec::split_off(at): the returned tail [at, len) ...
split_off(list, at) == SubSeq(list, at + 1, Len(list))
\* ... and what the vector keeps, [0, at)
truncated(list, at) == SubSeq(list, 1, at)

\* ------------------------------------------------------------ state codec
\* Bytes are modelled as a token sequence: the version tag of StateRoot
\* followed by one token per MigrationMeta.
VersionTag == "v1"

\* encode writing the state without the versioned root around it
encode_without_root(applied_migrations) == applied_migrations

\* State::encode, state.rs:16-19: the state wrapped in StateRoot::V1
encode(applied_migrations) == <<VersionTag>> \o applied_migrations

\* decode handing the empty input to the parser, which rejects it
decode_rejects_empty(bytes) ==
    IF bytes # <<>> /\ Head(bytes) = VersionTag
    THEN [ok |-> TRUE, applied_migrations |-> Tail(bytes)]
    ELSE [ok |-> FALSE, read_state |-> bytes]

\* decode taking any root for V1, whatever its version tag
decode_ignores_version(bytes) ==
    IF bytes = <<>>
    THEN [ok |-> TRUE, applied_migrations |-> <<>>]
    ELSE [ok |-> TRUE, applied_migrations |-> Tail(bytes)]

\* State::decode, state.rs:21-38

decode(bytes) ==
    IF bytes = <<>>
    THEN [ok |-> TRUE, applied_migrations |-> <<>>]
    ELSE IF Head(bytes) = VersionTag
         THEN [ok |-> TRUE, applied_migrations |-> Tail(bytes)]
         ELSE [ok |-> FALSE, read_state |-> bytes]

\* ------------------------------------------------------------------- diff
\* pivot with the lookup of the first configured name left out: nothing is
\* ever cut off the front of the history
pivot_never_prunes(new_list, old_list) == 0

\* diff.rs:23-26, the index at which old_list is split
pivot(new_list, old_list) ==
    IF new_list = <<>>
    THEN 0
    ELSE LET p == position(old_list, new_list[1])
         IN  IF p = None THEN 0 ELSE p

\* zip_loop splitting the pending tail one entry too late
RECURSIVE zip_loop_skips_first_pending(_, _, _)
zip_loop_skips_first_pending(new_list, old_list, i) ==
    IF i >= Len(old_list) /\ i >= Len(new_list)
    THEN [ok |-> TRUE, completed |-> new_list, pending |-> <<>>]
    ELSE IF i < Len(old_list) /\ i < Len(new_list)
         THEN IF old_list[i + 1] = new_list[i + 1]
              THEN zip_loop_skips_first_pending(new_list, old_list, i + 1)
              ELSE [ok |-> FALSE]
         ELSE IF i < Len(old_list)
              THEN [ok |-> FALSE]
              ELSE [ok |-> TRUE,
                    completed |-> truncated(new_list, i + 1),
                    pending |-> split_off(new_list, i + 1)]

\* zip_loop treating EitherOrBoth::Left (an applied migration without a
\* configured script) as the end of the walk instead of an inconsistency
RECURSIVE zip_loop_accepts_missing_tail(_, _, _)
zip_loop_accepts_missing_tail(new_list, old_list, i) ==
    IF i >= Len(new_list)
    THEN [ok |-> TRUE, completed |-> new_list, pending |-> <<>>]
    ELSE IF i < Len(old_list)
         THEN IF old_list[i + 1] = new_list[i + 1]
              THEN zip_loop_accepts_missing_tail(new_list, old_list, i + 1)
              ELSE [ok |-> FALSE]
         ELSE [ok |-> TRUE,
               completed |-> truncated(new_list, i),
               pending |-> split_off(new_list, i)]

\* diff.rs:30-69, the zip_longest walk; i is the 0-based enumerate() index.
\* Yields the (completed, pending) pair or the inconsistency error.
RECURSIVE zip_loop(_, _, _)
zip_loop(new_list, old_list, i) ==
    IF i >= Len(old_list) /\ i >= Len(new_list)
    THEN [ok |-> TRUE, completed |-> new_list, pending |-> <<>>]
    ELSE IF i < Len(old_list) /\ i < Len(new_list)
         THEN IF old_list[i + 1] = new_list[i + 1]
              THEN zip_loop(new_list, old_list, i + 1)
              ELSE [ok |-> FALSE]
         ELSE IF i < Len(old_list)
              THEN [ok |-> FALSE]
              ELSE [ok |-> TRUE,
                    completed |-> truncated(new_list, i),
                    pending |-> split_off(new_list, i)]

\* diff without the mem::replace of line 28: the caller's vector keeps what
\* split_off left in it, the pruned front
diff_without_replace(new_list, old_list) ==
    LET at == pivot(new_list, old_list)
        remaining_old_list == split_off(old_list, at)
        pruned == truncated(old_list, at)
        walk == zip_loop(new_list, remaining_old_list, 0)
    IN  IF walk.ok
        THEN [ok |-> TRUE, pruned |-> pruned, completed |-> walk.completed,
              pending |-> walk.pending, old_list |-> pruned]
        ELSE [ok |-> FALSE, pruned |-> <<>>, completed |-> <<>>,
              pending |-> <<>>, old_list |-> pruned]

\* diff.rs:15-76.  old_list is the value left in the caller's vector.
diff(new_list, old_list) ==
    LET at == pivot(new_list, old_list)
        remaining_old_list == split_off(old_list, at)
        pruned == truncated(old_list, at)
        walk == zip_loop(new_list, remaining_old_list, 0)
    IN  IF walk.ok
        THEN [ok |-> TRUE, pruned |-> pruned, completed |-> walk.completed,
              pending |-> walk.pending, old_list |-> remaining_old_list]
        ELSE [ok |-> FALSE, pruned |-> <<>>, completed |-> <<>>,
              pending |-> <<>>, old_list |-> remaining_old_list]


\* ------------------------------------------------------------ plan builder
\* lib.rs:175-184
find_migration(migs, bound) ==
    LET idx == position(migs, bound)
    IN  IF idx = None
        THEN [ok |-> FALSE,
              err |-> [kind |-> "UnknownMigration", name |-> bound, available |-> migs]]
        ELSE [ok |-> TRUE, idx |-> idx]

\* select cutting the Up plan before the bound instead of after it
select_exclusive_bound(d, sel) ==
    IF sel.dir = "Up"
    THEN IF sel.inclusive_bound = NoBound
         THEN [ok |-> TRUE, left_completed |-> d.completed, left_pending |-> <<>>,
               kind |-> [dir |-> "Up", migrations |-> d.pending]]
         ELSE LET f == find_migration(d.pending, sel.inclusive_bound)
              IN  IF f.ok
                  THEN [ok |-> TRUE, left_completed |-> d.completed,
                        left_pending |-> split_off(d.pending, f.idx),
                        kind |-> [dir |-> "Up",
                                  migrations |-> truncated(d.pending, f.idx)]]
                  ELSE f
    ELSE LET f == find_migration(d.completed, sel.inclusive_bound)
         IN  IF f.ok
             THEN [ok |-> TRUE, left_completed |-> truncated(d.completed, f.idx),
                   left_pending |-> d.pending,
                   kind |-> [dir |-> "Down",
                             migrations |-> split_off(d.completed, f.idx)]]
             ELSE f

\* select cutting the Down plan after the bound instead of at it
select_down_after_bound(d, sel) ==
    IF sel.dir = "Up"
    THEN IF sel.inclusive_bound = NoBound
         THEN [ok |-> TRUE, left_completed |-> d.completed, left_pending |-> <<>>,
               kind |-> [dir |-> "Up", migrations |-> d.pending]]
         ELSE LET f == find_migration(d.pending, sel.inclusive_bound)
              IN  IF f.ok
                  THEN [ok |-> TRUE, left_completed |-> d.completed,
                        left_pending |-> split_off(d.pending, f.idx + 1),
                        kind |-> [dir |-> "Up",
                                  migrations |-> truncated(d.pending, f.idx + 1)]]
                  ELSE f
    ELSE LET f == find_migration(d.completed, sel.inclusive_bound)
         IN  IF f.ok
             THEN [ok |-> TRUE, left_completed |-> truncated(d.completed, f.idx + 1),
                   left_pending |-> d.pending,
                   kind |-> [dir |-> "Down",
                             migrations |-> split_off(d.completed, f.idx + 1)]]
             ELSE f

\* an Up{None} selection that plans the completed migrations again
select_replays_completed(d, sel) ==
    IF sel.dir = "Up"
    THEN IF sel.inclusive_bound = NoBound
         THEN [ok |-> TRUE, left_completed |-> <<>>, left_pending |-> <<>>,
               kind |-> [dir |-> "Up", migrations |-> d.completed \o d.pending]]
         ELSE LET f == find_migration(d.pending, sel.inclusive_bound)
              IN  IF f.ok
                  THEN [ok |-> TRUE, left_completed |-> d.completed,
                        left_pending |-> split_off(d.pending, f.idx + 1),
                        kind |-> [dir |-> "Up",
                                  migrations |-> truncated(d.pending, f.idx + 1)]]
                  ELSE f
    ELSE LET f == find_migration(d.completed, sel.inclusive_bound)
         IN  IF f.ok
             THEN [ok |-> TRUE, left_completed |-> truncated(d.completed, f.idx),
                   left_pending |-> d.pending,
                   kind |-> [dir |-> "Down",
                             migrations |-> split_off(d.completed, f.idx)]]
             ELSE f

\* lib.rs:144-160, the selection applied to a successful diff d
select(d, sel) ==
    IF sel.dir = "Up"
    THEN IF sel.inclusive_bound = NoBound
         THEN [ok |-> TRUE, left_completed |-> d.completed, left_pending |-> <<>>,
               kind |-> [dir |-> "Up", migrations |-> d.pending]]
         ELSE LET f == find_migration(d.pending, sel.inclusive_bound)
              IN  IF f.ok
                  THEN [ok |-> TRUE, left_completed |-> d.completed,
                        left_pending |-> split_off(d.pending, f.idx + 1),
                        kind |-> [dir |-> "Up",
                                  migrations |-> truncated(d.pending, f.idx + 1)]]
                  ELSE f
    ELSE LET f == find_migration(d.completed, sel.inclusive_bound)
         IN  IF f.ok
             THEN [ok |-> TRUE, left_completed |-> truncated(d.completed, f.idx),
                   left_pending |-> d.pending,
                   kind |-> [dir |-> "Down",
                             migrations |-> split_off(d.completed, f.idx)]]
             ELSE f

\* MigrationsSelection values a caller can pass to build
Selections ==
    [dir : {"Up"}, inclusive_bound : Names \cup {NoBound}]
        \cup [dir : {"Down"}, inclusive_bound : Names]

\* ---------------------------------------------------------- plan executor
\* The context type a migration declares (Migration::Ctx); the configuration
\* modelled lets the migrations take the context types in turn.
ctx_of(name) ==
    LET i == CHOOSE j \in 1..Len(NamePool) : NamePool[j] = name
    IN  CtxPool[((i - 1) % NumCtx) + 1]

\* PlanKind::migrations_in_exec_order / the iteration order of try_exec
RECURSIVE rev(_)
rev(list) == IF list = <<>> THEN <<>> ELSE Append(rev(Tail(list)), Head(list))

\* a Down loop walking the plan front to back
exec_order_forward(k) == k.migrations

exec_order(k) == IF k.dir = "Up" THEN k.migrations ELSE rev(k.migrations)

\* ------------------------------------------------------------------ state
VARIABLES
    store,               \* bytes held by the state storage backend
    guard,               \* the StateGuard of this run: none/held/dropped/unlocked
    migrations,          \* PlanBuilder.migrations (names, in configured order)
    pc,                  \* position of the engine run
    selection,           \* the MigrationsSelection passed to build
    fetched,             \* the bytes client.fetch() returned to build
    applied_migrations,  \* State.applied_migrations held in memory
    migrations_diff,     \* the MigrationsDiff diff::diff returned
    pruned,              \* Plan.state.pruned
    left_completed,      \* Plan.left_completed
    left_pending,        \* Plan.left_pending
    kind,                \* Plan.kind
    build_result,        \* outcome of build: none / Ok / the PlanBuildErrorKind
    run_mode,            \* MigrationRunMode passed to exec
    cursor,              \* number of loop iterations of try_exec started and finished
    ctx_registry,        \* CtxRegistryEntry per context type
    errors,              \* the errors vector of exec
    exec_result,         \* outcome of exec: none / Ok / Err
    trace,               \* script invocations of this exec: calls and returns
    lookups,             \* get_mut calls of this exec, with the provider's answer
    state_calls,         \* update and unlock calls of this exec, in order
    plan_args,           \* the PlanArgGroup MigrateCli::run took from the command
    prev_up_all,         \* the list the previous run applied with Up{None}, kept
                         \* while this run repeats that list with Up{None} or
                         \* rolls it back
    prev_run_mode,       \* the run mode of that previous run
    backend,             \* the StateLock implementation in use: "File" or "Ddb"
    disk,                \* the state file's content / the payload of the item
    flock,               \* the subject whose file handle has the advisory lock
    subj,                \* per subject: its lock call, guard, handle and run
    written              \* the bytes of the most recent update call, or <<>>

\* the state of one engine run on an abstract state storage
engine_vars == <<store, guard, migrations, pc, selection, fetched,
                 applied_migrations, migrations_diff, pruned, left_completed,
                 left_pending, kind, build_result, run_mode, cursor, ctx_registry,
                 errors, exec_result, trace, lookups, state_calls, plan_args,
                 prev_up_all, prev_run_mode>>

\* the state of the storage backends and of the subjects that share one
storage_vars == <<backend, disk, flock, subj, written>>

vars == <<engine_vars, storage_vars>>

\* what the steps of build and exec leave alone
cli_vars == <<plan_args, prev_up_all, prev_run_mode>>

NoDiff == [ok |-> FALSE, pruned |-> <<>>, completed |-> <<>>, pending |-> <<>>,
           old_list |-> <<>>]
NoKind == [dir |-> "Up", migrations |-> <<>>]
NoSelection == [dir |-> "Up", inclusive_bound |-> NoBound]
NoResult == [kind |-> "none"]
Ok == [kind |-> "Ok"]
\* PlanArgGroup with neither flag given
NoArgs == [no_commit |-> FALSE, no_run |-> FALSE]
\* the flag combinations the argument parser lets through (lib.rs:236-239)
PlanArgGroups ==
    {a \in [no_commit : BOOLEAN, no_run : BOOLEAN] : ~(a.no_commit /\ a.no_run)}

\* Bytes in the storage that no State::encode of this version wrote: a root
\* with another version tag, and bytes that are not a root at all.  The
\* storage is a plain Vec<u8> (migrate-state lib.rs:27-30).
ForeignStores == {<<"v2", NamePool[1]>>, <<"{">>}

\* The run-local values after Plan::builder (lib.rs:227-234) followed by
\* ctx_provider for every context type: an empty migration list and every
\* registry entry Uninit(Some(provider)).
fresh_registry == [t \in CtxTypes |-> "Uninit"]

\* The parties that share one state storage
Subjects == {"first", "second"}
NoSubject == "<free>"

\* A subject that has not called lock yet
idle_subject ==
    [pc |-> "idle", role |-> "none", force |-> FALSE, pos |-> 0,
     got |-> <<>>, want |-> <<>>, rivals |-> {},
     migrations |-> <<>>, selection |-> NoSelection, applied |-> <<>>,
     kind |-> NoKind, cursor |-> 0, build_result |-> NoResult]

\* No update call was made yet: the last written bytes and the ones before
NoUpdate == [last |-> <<>>, prev |-> <<>>]

\* A storage nobody has touched: no content, nobody locking
StorageIdle ==
    /\ disk = <<>>
    /\ flock = NoSubject
    /\ subj = [r \in Subjects |-> idle_subject]
    /\ written = NoUpdate

\* The run-local values of an engine run that has not started
EngineFresh ==
    /\ plan_args = NoArgs
    /\ prev_up_all = <<>>
    /\ prev_run_mode = "Commit"
    /\ migrations = <<>>
    /\ pc = "builder"
    /\ guard = "none"
    /\ selection = NoSelection
    /\ fetched = <<>>
    /\ applied_migrations = <<>>
    /\ migrations_diff = NoDiff
    /\ pruned = <<>>
    /\ left_completed = <<>>
    /\ left_pending = <<>>
    /\ kind = NoKind
    /\ build_result = NoResult
    /\ run_mode = "Commit"
    /\ cursor = 0
    /\ ctx_registry = fresh_registry
    /\ errors = <<>>
    /\ exec_result = NoResult
    /\ trace = <<>>
    /\ lookups = <<>>
    /\ state_calls = <<>>

Init ==
    /\ backend = "File"
    /\ StorageIdle
    /\ store \in {<<>>} \cup ForeignStores
    /\ EngineFresh

\* The run being configured can still repeat the list of the previous run:
\* its first n migrations are the first n of that list
sequel_of(prev, migs, n) ==
    /\ prev # <<>>
    /\ Len(migs) = n
    /\ n <= Len(prev)
    /\ SubSeq(prev, 1, n) = migs

\* A new run: Plan::builder on the same state storage
Builder ==
    /\ UNCHANGED storage_vars
    /\ pc \in {"build_failed", "done", "displayed", "listed"}
    /\ plan_args' = NoArgs
    /\ LET up_all == /\ pc = "done"
                     /\ exec_result = Ok
                     /\ kind.dir = "Up"
                     /\ selection.inclusive_bound = NoBound
       IN  /\ prev_up_all' = IF up_all THEN migrations ELSE <<>>
           /\ prev_run_mode' = IF up_all THEN run_mode ELSE "Commit"
    /\ migrations' = <<>>
    /\ pc' = "builder"
    /\ guard' = "none"
    /\ selection' = NoSelection
    /\ fetched' = <<>>
    /\ applied_migrations' = <<>>
    /\ migrations_diff' = NoDiff
    /\ pruned' = <<>>
    /\ left_completed' = <<>>
    /\ left_pending' = <<>>
    /\ kind' = NoKind
    /\ build_result' = NoResult
    /\ run_mode' = "Commit"
    /\ cursor' = 0
    /\ ctx_registry' = fresh_registry
    /\ errors' = <<>>
    /\ exec_result' = NoResult
    /\ trace' = <<>>
    /\ lookups' = <<>>
    /\ state_calls' = <<>>
    /\ UNCHANGED store

\* PlanBuilder::migration (lib.rs:91-99); names are unique per the contract
Migration(name) ==
    /\ UNCHANGED storage_vars
    /\ UNCHANGED plan_args
    /\ LET again == sequel_of(prev_up_all, Append(migrations, name), Len(migrations) + 1)
       IN  /\ prev_up_all' = IF again THEN prev_up_all ELSE <<>>
           /\ prev_run_mode' = IF again THEN prev_run_mode ELSE "Commit"
    /\ pc = "builder"
    /\ Len(migrations) < MaxLen
    /\ name \notin names_of(migrations)
    /\ migrations' = Append(migrations, name)
    /\ UNCHANGED <<store, guard, pc, selection, fetched, applied_migrations,
                   migrations_diff, pruned, left_completed, left_pending, kind,
                   build_result, run_mode, cursor, ctx_registry, errors,
                   exec_result, trace, lookups, state_calls>>

\* build, lib.rs:128-132: state_lock.lock(force_lock)
BuildLock(sel, lock_ok) ==
    /\ UNCHANGED storage_vars
    /\ UNCHANGED plan_args
    /\ LET again == /\ sequel_of(prev_up_all, migrations, Len(prev_up_all))
                    /\ \/ sel = [dir |-> "Down", inclusive_bound |-> prev_up_all[1]]
                       \/ sel = [dir |-> "Up", inclusive_bound |-> NoBound]
       IN  /\ prev_up_all' = IF again THEN prev_up_all ELSE <<>>
           /\ prev_run_mode' = IF again THEN prev_run_mode ELSE "Commit"
    /\ pc = "builder"
    /\ selection' = sel
    /\ IF lock_ok
       THEN /\ guard' = "held"
            /\ pc' = "locked"
            /\ UNCHANGED build_result
       ELSE /\ build_result' = [kind |-> "StateLock"]
            /\ pc' = "build_failed"
            /\ UNCHANGED guard
    /\ UNCHANGED <<store, migrations, fetched, applied_migrations,
                   migrations_diff, pruned, left_completed, left_pending, kind,
                   run_mode, cursor, ctx_registry, errors, exec_result, trace,
                   lookups, state_calls>>

\* build, lib.rs:133-139: state_client.fetch(); on error the guard is dropped
BuildFetch(fetch_ok) ==
    /\ UNCHANGED storage_vars
    /\ UNCHANGED cli_vars
    /\ pc = "locked"
    /\ IF fetch_ok
       THEN /\ fetched' = store
            /\ pc' = "fetched"
            /\ UNCHANGED <<guard, build_result>>
       ELSE /\ build_result' = [kind |-> "StateFetch"]
            /\ guard' = "dropped"
            /\ pc' = "build_failed"
            /\ UNCHANGED fetched
    /\ UNCHANGED <<store, migrations, selection, applied_migrations,
                   migrations_diff, pruned, left_completed, left_pending, kind,
                   run_mode, cursor, ctx_registry, errors, exec_result, trace,
                   lookups, state_calls>>

\* a build that writes the state back as soon as diff has pruned it
BuildPlan_saves_pruned ==
    /\ UNCHANGED storage_vars
    /\ UNCHANGED cli_vars
    /\ pc = "fetched"
    /\ LET dec == decode(fetched)
       IN  IF ~dec.ok
           THEN /\ build_result' = [kind |-> "StateDecode", read_state |-> dec.read_state]
                /\ guard' = "dropped"
                /\ pc' = "build_failed"
                /\ UNCHANGED <<applied_migrations, migrations_diff, pruned,
                               left_completed, left_pending, kind>>
           ELSE LET d == diff(migrations, dec.applied_migrations)
                IN  IF ~d.ok
                    THEN /\ build_result' = [kind |-> "InconsistentMigrationScripts"]
                         /\ guard' = "dropped"
                         /\ pc' = "build_failed"
                         /\ migrations_diff' = d
                         /\ UNCHANGED <<applied_migrations, pruned,
                                        left_completed, left_pending, kind>>
                    ELSE LET s == select(d, selection)
                         IN  /\ migrations_diff' = d
                             /\ IF ~s.ok
                                THEN /\ build_result' = s.err
                                     /\ guard' = "dropped"
                                     /\ pc' = "build_failed"
                                     /\ UNCHANGED <<applied_migrations, pruned,
                                                    left_completed, left_pending, kind>>
                                ELSE /\ build_result' = Ok
                                     /\ pc' = "built"
                                     /\ applied_migrations' = d.old_list
                                     /\ pruned' = d.pruned
                                     /\ left_completed' = s.left_completed
                                     /\ left_pending' = s.left_pending
                                     /\ kind' = s.kind
                                     /\ UNCHANGED guard
    /\ store' = IF decode(fetched).ok
                THEN encode(diff(migrations, decode(fetched).applied_migrations).old_list)
                ELSE store
    /\ UNCHANGED <<migrations, selection, fetched, run_mode, cursor,
                   ctx_registry, errors, exec_result, trace, lookups, state_calls>>

\* build, lib.rs:135-173: decode, diff, selection, Plan construction
BuildPlan ==
    /\ UNCHANGED storage_vars
    /\ UNCHANGED cli_vars
    /\ pc = "fetched"
    /\ LET dec == decode(fetched)
       IN  IF ~dec.ok
           THEN /\ build_result' = [kind |-> "StateDecode", read_state |-> dec.read_state]
                /\ guard' = "dropped"
                /\ pc' = "build_failed"
                /\ UNCHANGED <<applied_migrations, migrations_diff, pruned,
                               left_completed, left_pending, kind>>
           ELSE LET d == diff(migrations, dec.applied_migrations)
                IN  IF ~d.ok
                    THEN /\ build_result' = [kind |-> "InconsistentMigrationScripts"]
                         /\ guard' = "dropped"
                         /\ pc' = "build_failed"
                         /\ migrations_diff' = d
                         /\ UNCHANGED <<applied_migrations, pruned,
                                        left_completed, left_pending, kind>>
                    ELSE LET s == select(d, selection)
                         IN  /\ migrations_diff' = d
                             /\ IF ~s.ok
                                THEN /\ build_result' = s.err
                                     /\ guard' = "dropped"
                                     /\ pc' = "build_failed"
                                     /\ UNCHANGED <<applied_migrations, pruned,
                                                    left_completed, left_pending, kind>>
                                ELSE /\ build_result' = Ok
                                     /\ pc' = "built"
                                     /\ applied_migrations' = d.old_list
                                     /\ pruned' = d.pruned
                                     /\ left_completed' = s.left_completed
                                     /\ left_pending' = s.left_pending
                                     /\ kind' = s.kind
                                     /\ UNCHANGED guard
    /\ UNCHANGED <<store, migrations, selection, fetched, run_mode, cursor,
                   ctx_registry, errors, exec_result, trace, lookups, state_calls>>


\* exec, lib.rs:244-248: the guard is taken out of the plan, errors is empty
ExecBegin(mode) ==
    /\ pc = "built"
    /\ run_mode' = mode
    /\ errors' = <<>>
    /\ pc' = "loop"
    /\ UNCHANGED <<store, guard, migrations, selection, fetched,
                   applied_migrations, migrations_diff, pruned, left_completed,
                   left_pending, kind, build_result, cursor, ctx_registry,
                   exec_result, trace, lookups, state_calls>>

\* run_mode_of taking the no-run flag for no-commit
run_mode_of_runs_dry(no_commit, no_run) ==
    IF no_commit /\ no_run THEN "unreachable"
    ELSE IF no_commit \/ no_run THEN "NoCommit"
    ELSE "Commit"

\* the match on (no_commit, no_run) of MigrateCli::run, lib.rs:227-240
run_mode_of(no_commit, no_run) ==
    IF ~no_commit /\ ~no_run THEN "Commit"
    ELSE IF no_commit /\ ~no_run THEN "NoCommit"
    ELSE IF ~no_commit /\ no_run THEN "return"
    ELSE "unreachable"

\* a run that unlocks the guard of a plan it does not execute
Run_unlocks_unrun_plan(no_commit, no_run) ==
    /\ UNCHANGED storage_vars
    /\ pc = "built"
    /\ plan_args' = [no_commit |-> no_commit, no_run |-> no_run]
    /\ UNCHANGED <<prev_up_all, prev_run_mode>>
    /\ LET m == run_mode_of(no_commit, no_run)
       IN  IF m \in {"Commit", "NoCommit"}
           THEN ExecBegin(m)
           ELSE /\ pc' = IF m = "return" THEN "displayed" ELSE "panicked"
                /\ guard' = "unlocked"
                /\ state_calls' = Append(state_calls,
                                         [op |-> "unlock", bytes |-> <<>>,
                                          ok |-> TRUE, at |-> Len(trace)])
                /\ UNCHANGED <<store, migrations, selection, fetched,
                               applied_migrations, migrations_diff, pruned,
                               left_completed, left_pending, kind, build_result,
                               run_mode, cursor, ctx_registry, errors,
                               exec_result, trace, lookups>>

\* MigrateCli::run after a successful build, lib.rs:227-244: with no-run the
\* plan is rendered and dropped (and its guard with it), otherwise
\* plan.exec(run_mode) begins.
Run(no_commit, no_run) ==
    /\ UNCHANGED storage_vars
    /\ pc = "built"
    /\ plan_args' = [no_commit |-> no_commit, no_run |-> no_run]
    /\ UNCHANGED <<prev_up_all, prev_run_mode>>
    /\ LET m == run_mode_of(no_commit, no_run)
       IN  IF m \in {"Commit", "NoCommit"}
           THEN ExecBegin(m)
           ELSE /\ pc' = IF m = "return" THEN "displayed" ELSE "panicked"
                /\ guard' = "dropped"
                /\ UNCHANGED <<store, migrations, selection, fetched,
                               applied_migrations, migrations_diff, pruned,
                               left_completed, left_pending, kind, build_result,
                               run_mode, cursor, ctx_registry, errors,
                               exec_result, trace, lookups, state_calls>>

\* MigrateCli::run with the list command, lib.rs:218-224: the configured
\* migrations are rendered, nothing is built
RunList ==
    /\ UNCHANGED storage_vars
    /\ pc = "builder"
    /\ pc' = "listed"
    /\ UNCHANGED <<store, guard, migrations, selection, fetched,
                   applied_migrations, migrations_diff, pruned, left_completed,
                   left_pending, kind, build_result, run_mode, cursor,
                   ctx_registry, errors, exec_result, trace, lookups,
                   state_calls, plan_args, prev_up_all, prev_run_mode>>

\* The migration the loop of try_exec visits after `done` finished iterations
current_migration(k, done) == exec_order(k)[done + 1]

\* touch_state without the push of the Up loop
touch_state_without_push(applied, k, name) ==
    IF k.dir = "Up"
    THEN [panicked |-> FALSE, applied |-> applied]
    ELSE IF applied = <<>> \/ applied[Len(applied)] # name
         THEN [panicked |-> TRUE, applied |-> applied]
         ELSE [panicked |-> FALSE, applied |-> truncated(applied, Len(applied) - 1)]

\* touch_state without the pop of the Down loop
touch_state_without_pop(applied, k, name) ==
    IF k.dir = "Up"
    THEN [panicked |-> FALSE, applied |-> Append(applied, name)]
    ELSE [panicked |-> FALSE, applied |-> applied]

\* lib.rs:284-287 (Up) and lib.rs:297-298 (Down): the in-memory state is
\* changed before the script runs.  panicked models unwrap/assert_eq failing.
touch_state(applied, k, name) ==
    IF k.dir = "Up"
    THEN [panicked |-> FALSE, applied |-> Append(applied, name)]
    ELSE IF applied = <<>> \/ applied[Len(applied)] # name
         THEN [panicked |-> TRUE, applied |-> applied]
         ELSE [panicked |-> FALSE, applied |-> truncated(applied, Len(applied) - 1)]

\* get_mut asking the provider again although the entry is Init
get_mut_recreates(entry, mode, created) ==
    IF entry = "CtxLacksNoCommitMode"
    THEN [entry |-> entry, res |-> "CtxLacksNoCommitMode", called |-> FALSE]
    ELSE IF entry = "UninitTaken"
    THEN [entry |-> entry, res |-> "panic", called |-> FALSE]
    ELSE IF mode = "NoCommit" /\ created = "none"
    THEN [entry |-> "CtxLacksNoCommitMode", res |-> "CtxLacksNoCommitMode",
          called |-> TRUE]
    ELSE IF created = "ok"
    THEN [entry |-> "Init", res |-> "ctx", called |-> TRUE]
    ELSE [entry |-> "UninitTaken", res |-> "CreateMigrationCtx", called |-> TRUE]

\* get_mut taking a failed construction for a provider without no-commit mode
get_mut_err_as_declined(entry, mode, created) ==
    IF entry = "Init"
    THEN [entry |-> "Init", res |-> "ctx", called |-> FALSE]
    ELSE IF entry = "CtxLacksNoCommitMode"
    THEN [entry |-> entry, res |-> "CtxLacksNoCommitMode", called |-> FALSE]
    ELSE IF entry = "UninitTaken"
    THEN [entry |-> entry, res |-> "panic", called |-> FALSE]
    ELSE IF created = "ok"
    THEN [entry |-> "Init", res |-> "ctx", called |-> TRUE]
    ELSE [entry |-> "CtxLacksNoCommitMode", res |-> "CtxLacksNoCommitMode",
          called |-> TRUE]

\* CtxRegistry::get_mut, dyn_migration.rs:129-170.  `created` is what the
\* provider answers if it is asked: "ok", "err", or "none" (only
\* create_in_no_commit_mode may decline).  Yields the new entry, the result
\* and whether the provider was called.
get_mut(entry, mode, created) ==
    IF entry = "Init"
    THEN [entry |-> "Init", res |-> "ctx", called |-> FALSE]
    ELSE IF entry = "CtxLacksNoCommitMode"
    THEN [entry |-> entry, res |-> "CtxLacksNoCommitMode", called |-> FALSE]
    ELSE IF entry = "UninitTaken"
    THEN [entry |-> entry, res |-> "panic", called |-> FALSE]
    ELSE IF mode = "NoCommit" /\ created = "none"
    THEN [entry |-> "CtxLacksNoCommitMode", res |-> "CtxLacksNoCommitMode",
          called |-> TRUE]
    ELSE IF created = "ok"
    THEN [entry |-> "Init", res |-> "ctx", called |-> TRUE]
    ELSE [entry |-> "UninitTaken", res |-> "CreateMigrationCtx", called |-> TRUE]

\* What a provider can answer in a run mode
ProviderAnswers(mode) == IF mode = "Commit" THEN {"ok", "err"} ELSE {"ok", "err", "none"}

\* exec_migration handing the sentinel on to try_exec
exec_migration_passes_sentinel(res) == res

\* a loop that also goes on after a context could not be created
exec_migration_skips_ctx_error(res) ==
    IF res \in {"CtxLacksNoCommitMode", "CreateMigrationCtx"} THEN "Ok" ELSE res

\* exec_migration, lib.rs:319-325, applied to what script.exec yields before
\* the user's script runs: the recoverable sentinel becomes Ok(())
exec_migration(res) == IF res = "CtxLacksNoCommitMode" THEN "Ok" ELSE res

\* One iteration of the loop of try_exec up to the call of the user script:
\* lib.rs:283-292 / 296-303, exec_migration lib.rs:310-326 and
\* DynMigrationScript::exec dyn_migration.rs:92-93.
ExecMigration(created) ==
    /\ UNCHANGED storage_vars
    /\ UNCHANGED cli_vars
    /\ pc = "loop"
    /\ cursor < Len(kind.migrations)
    /\ created \in ProviderAnswers(run_mode)
    /\ LET name == current_migration(kind, cursor)
           t == touch_state(applied_migrations, kind, name)
           g == get_mut(ctx_registry[ctx_of(name)], run_mode, created)
           r == exec_migration(g.res)
       IN  IF t.panicked
           THEN /\ pc' = "panicked"
                /\ UNCHANGED <<applied_migrations, ctx_registry, cursor, errors,
                               trace, lookups>>
           ELSE /\ applied_migrations' = t.applied
                /\ ctx_registry' = [ctx_registry EXCEPT ![ctx_of(name)] = g.entry]
                /\ lookups' = Append(lookups,
                                     [name |-> name, ctx_type |-> ctx_of(name),
                                      run_mode |-> run_mode,
                                      answer |-> IF g.called THEN created ELSE "n/a",
                                      res |-> g.res])
                /\ IF r = "ctx"
                   THEN /\ pc' = "script"
                        /\ trace' = Append(trace, [ev |-> "call", name |-> name,
                                                   dir |-> kind.dir, ok |-> TRUE])
                        /\ UNCHANGED <<cursor, errors>>
                   ELSE IF r = "Ok"
                   THEN /\ cursor' = cursor + 1
                        /\ UNCHANGED <<pc, errors, trace>>
                   ELSE IF r = "panic"
                   THEN /\ pc' = "panicked"
                        /\ UNCHANGED <<cursor, errors, trace>>
                   ELSE /\ errors' = Append(errors, [kind |-> r,
                                                     run_mode |-> run_mode,
                                                     ctx_type |-> ctx_of(name)])
                        /\ pc' = "update"
                        /\ UNCHANGED <<cursor, trace>>
    /\ UNCHANGED <<store, guard, migrations, selection, fetched, migrations_diff,
                   pruned, left_completed, left_pending, kind, build_result,
                   run_mode, exec_result, state_calls>>

\* ScriptReturn without the `?` of lib.rs:292/303: a failed script is
\* recorded but the loop goes on
ScriptReturn_ignores_error(script_ok) ==
    /\ UNCHANGED storage_vars
    /\ UNCHANGED cli_vars
    /\ pc = "script"
    /\ trace' = Append(trace, [ev |-> "ret", name |-> current_migration(kind, cursor),
                               dir |-> kind.dir, ok |-> script_ok])
    /\ cursor' = cursor + 1
    /\ pc' = "loop"
    /\ errors' = IF script_ok THEN errors
                 ELSE Append(errors, [kind |-> "ExecMigrationScript",
                                      source |-> current_migration(kind, cursor)])
    /\ UNCHANGED <<store, guard, migrations, selection, fetched,
                   applied_migrations, migrations_diff, pruned, left_completed,
                   left_pending, kind, build_result, run_mode, ctx_registry,
                   exec_result, lookups, state_calls>>

\* ScriptReturn dropping the script's error: the loop stops but nothing is
\* pushed to errors
ScriptReturn_swallows_error(script_ok) ==
    /\ UNCHANGED storage_vars
    /\ UNCHANGED cli_vars
    /\ pc = "script"
    /\ trace' = Append(trace, [ev |-> "ret", name |-> current_migration(kind, cursor),
                               dir |-> kind.dir, ok |-> script_ok])
    /\ IF script_ok
       THEN /\ cursor' = cursor + 1
            /\ pc' = "loop"
       ELSE /\ pc' = "update"
            /\ UNCHANGED cursor
    /\ UNCHANGED <<store, guard, migrations, selection, fetched,
                   applied_migrations, migrations_diff, pruned, left_completed,
                   left_pending, kind, build_result, run_mode, ctx_registry,
                   exec_result, lookups, state_calls, errors>>

\* ScriptReturn leaving exec's save-on-exit out when the script failed
ScriptReturn_skips_update(script_ok) ==
    /\ UNCHANGED storage_vars
    /\ UNCHANGED cli_vars
    /\ pc = "script"
    /\ trace' = Append(trace, [ev |-> "ret", name |-> current_migration(kind, cursor),
                               dir |-> kind.dir, ok |-> script_ok])
    /\ IF script_ok
       THEN /\ cursor' = cursor + 1
            /\ pc' = "loop"
            /\ UNCHANGED errors
       ELSE /\ errors' = Append(errors, [kind |-> "ExecMigrationScript",
                                         source |-> current_migration(kind, cursor)])
            /\ pc' = "unlock"
            /\ UNCHANGED cursor
    /\ UNCHANGED <<store, guard, migrations, selection, fetched,
                   applied_migrations, migrations_diff, pruned, left_completed,
                   left_pending, kind, build_result, run_mode, ctx_registry,
                   exec_result, lookups, state_calls>>

\* The user's up/down returns: dyn_migration.rs:94-98, then lib.rs:292/303
\* (`?`) and lib.rs:249-251.  The error's source is named after its script.
ScriptReturn(script_ok) ==
    /\ UNCHANGED storage_vars
    /\ UNCHANGED cli_vars
    /\ pc = "script"
    /\ trace' = Append(trace, [ev |-> "ret", name |-> current_migration(kind, cursor),
                               dir |-> kind.dir, ok |-> script_ok])
    /\ IF script_ok
       THEN /\ cursor' = cursor + 1
            /\ pc' = "loop"
            /\ UNCHANGED errors
       ELSE /\ errors' = Append(errors, [kind |-> "ExecMigrationScript",
                                         source |-> current_migration(kind, cursor)])
            /\ pc' = "update"
            /\ UNCHANGED cursor
    /\ UNCHANGED <<store, guard, migrations, selection, fetched,
                   applied_migrations, migrations_diff, pruned, left_completed,
                   left_pending, kind, build_result, run_mode, ctx_registry,
                   exec_result, lookups, state_calls>>

\* try_exec returns Ok(()) after the last iteration, lib.rs:307
LoopEnd ==
    /\ UNCHANGED storage_vars
    /\ UNCHANGED cli_vars
    /\ pc = "loop"
    /\ cursor = Len(kind.migrations)
    /\ pc' = "update"
    /\ UNCHANGED <<store, guard, migrations, selection, fetched,
                   applied_migrations, migrations_diff, pruned, left_completed,
                   left_pending, kind, build_result, run_mode, cursor,
                   ctx_registry, errors, exec_result, trace, lookups, state_calls>>

\* the record of a call on the guard or its client made by exec
state_call(op, bytes, ok) ==
    [op |-> op, bytes |-> bytes, ok |-> ok, at |-> Len(trace)]

\* ExecUpdate returning from exec as soon as update fails (`?` on line 254)
ExecUpdate_returns_early(update_ok) ==
    /\ UNCHANGED storage_vars
    /\ UNCHANGED cli_vars
    /\ pc = "update"
    /\ state_calls' = Append(state_calls,
                             state_call("update", encode(applied_migrations), update_ok))
    /\ IF update_ok
       THEN /\ store' = encode(applied_migrations)
            /\ pc' = "unlock"
            /\ UNCHANGED <<errors, exec_result, guard>>
       ELSE /\ errors' = Append(errors, [kind |-> "UpdateState"])
            /\ exec_result' = [kind |-> "Err"]
            /\ guard' = "dropped"
            /\ pc' = "done"
            /\ UNCHANGED store
    /\ UNCHANGED <<migrations, selection, fetched, applied_migrations,
                   migrations_diff, pruned, left_completed, left_pending, kind,
                   build_result, run_mode, cursor, ctx_registry, trace, lookups>>

\* ExecUpdate putting its error in front of the errors collected so far
ExecUpdate_error_first(update_ok) ==
    /\ UNCHANGED storage_vars
    /\ UNCHANGED cli_vars
    /\ pc = "update"
    /\ state_calls' = Append(state_calls,
                             state_call("update", encode(applied_migrations), update_ok))
    /\ IF update_ok
       THEN /\ store' = encode(applied_migrations)
            /\ UNCHANGED errors
       ELSE /\ errors' = <<[kind |-> "UpdateState"]>> \o errors
            /\ UNCHANGED store
    /\ pc' = "unlock"
    /\ UNCHANGED <<guard, migrations, selection, fetched, applied_migrations,
                   migrations_diff, pruned, left_completed, left_pending, kind,
                   build_result, run_mode, cursor, ctx_registry, exec_result, trace,
                   lookups>>

\* an exec that saves the state it ran on when the run does not commit
ExecUpdate_commit_only(update_ok) ==
    /\ UNCHANGED storage_vars
    /\ UNCHANGED cli_vars
    /\ pc = "update"
    /\ LET saved == IF run_mode = "Commit" THEN applied_migrations
                    ELSE migrations_diff.old_list IN
           /\ state_calls' = Append(state_calls,
                                    state_call("update", encode(saved), update_ok))
           /\ IF update_ok
              THEN /\ store' = encode(saved)
                   /\ UNCHANGED errors
              ELSE /\ errors' = Append(errors, [kind |-> "UpdateState"])
                   /\ UNCHANGED store
           /\ pc' = "unlock"
           /\ UNCHANGED <<guard, migrations, selection, fetched, applied_migrations,
                          migrations_diff, pruned, left_completed, left_pending, kind,
                          build_result, run_mode, cursor, ctx_registry, exec_result, trace,
                          lookups>>

\* lib.rs:253-256: guard.client().update(state.encode())
ExecUpdate(update_ok) ==
    /\ UNCHANGED storage_vars
    /\ UNCHANGED cli_vars
    /\ pc = "update"
    /\ state_calls' = Append(state_calls,
                             state_call("update", encode(applied_migrations), update_ok))
    /\ IF update_ok
       THEN /\ store' = encode(applied_migrations)
            /\ UNCHANGED errors
       ELSE /\ errors' = Append(errors, [kind |-> "UpdateState"])
            /\ UNCHANGED store
    /\ pc' = "unlock"
    /\ UNCHANGED <<guard, migrations, selection, fetched, applied_migrations,
                   migrations_diff, pruned, left_completed, left_pending, kind,
                   build_result, run_mode, cursor, ctx_registry, exec_result, trace,
                   lookups>>

\* an exec that reports an error whenever a script ran, with or without errors
ExecUnlock_err_without_errors(unlock_ok) ==
    /\ UNCHANGED storage_vars
    /\ UNCHANGED cli_vars
    /\ pc = "unlock"
    /\ guard' = "unlocked"
    /\ state_calls' = Append(state_calls, state_call("unlock", <<>>, unlock_ok))
    /\ errors' = IF unlock_ok THEN errors
                 ELSE Append(errors, [kind |-> "UnlockState"])
    /\ exec_result' = IF unlock_ok /\ trace = <<>> THEN Ok ELSE [kind |-> "Err"]
    /\ pc' = "done"
    /\ UNCHANGED <<store, migrations, selection, fetched, applied_migrations,
                   migrations_diff, pruned, left_completed, left_pending, kind,
                   build_result, run_mode, cursor, ctx_registry, trace, lookups>>

\* lib.rs:258-267: guard.unlock(), then the result of exec
ExecUnlock(unlock_ok) ==
    /\ UNCHANGED storage_vars
    /\ UNCHANGED cli_vars
    /\ pc = "unlock"
    /\ guard' = "unlocked"
    /\ state_calls' = Append(state_calls, state_call("unlock", <<>>, unlock_ok))
    /\ errors' = IF unlock_ok THEN errors
                 ELSE Append(errors, [kind |-> "UnlockState"])
    /\ exec_result' = IF errors' = <<>> THEN Ok ELSE [kind |-> "Err"]
    /\ pc' = "done"
    /\ UNCHANGED <<store, migrations, selection, fetched, applied_migrations,
                   migrations_diff, pruned, left_completed, left_pending, kind,
                   build_result, run_mode, cursor, ctx_registry, trace, lookups>>

\* What MigrateCli::run returns, lib.rs:204, 214, 223, 234, 242-244
run_result ==
    IF pc = "build_failed"
    THEN [kind |-> "PlanBuild", source |-> build_result]
    ELSE IF pc = "done" /\ exec_result # Ok
    THEN [kind |-> "PlanExec", source |-> errors]
    ELSE IF pc \in {"done", "displayed", "listed"}
    THEN Ok
    ELSE NoResult

Next ==
    \/ Builder
    \/ \E name \in Names : Migration(name)
    \/ \E sel \in Selections, lock_ok \in BOOLEAN : BuildLock(sel, lock_ok)
    \/ \E fetch_ok \in BOOLEAN : BuildFetch(fetch_ok)
    \/ BuildPlan
    \/ \E a \in PlanArgGroups : Run(a.no_commit, a.no_run)
    \/ RunList
    \/ \E created \in {"ok", "err", "none"} : ExecMigration(created)
    \/ \E script_ok \in BOOLEAN : ScriptReturn(script_ok)
    \/ LoopEnd
    \/ \E update_ok \in BOOLEAN : ExecUpdate(update_ok)
    \/ \E unlock_ok \in BOOLEAN : ExecUnlock(unlock_ok)

Spec == Init /\ [][Next]_vars

\* --------------------------------------------------------- state backends
\* Whether a lock call resolves.  FileStateLock::lock (file-state lib.rs:66,
\* 78-85) takes no force argument and always asks for the exclusive advisory
\* lock of the state file, which is granted once no other handle has it;
\* DdbStateLock::lock (dynamodb lib.rs:193-197) acquires nothing.
lock_resolves(be, force, holder) ==
    IF be = "File" THEN holder = NoSubject ELSE TRUE

\* The holder of the advisory lock once the lock call of r resolved
lock_taken(be, holder, r) == IF be = "File" THEN r ELSE holder

\* StateGuard::unlock: file.unlock() of r's handle (file-state lib.rs:101-107);
\* nothing for DdbStateGuard (dynamodb lib.rs:208-215)
unlock(be, holder, r) ==
    IF be = "File" /\ holder = r THEN NoSubject ELSE holder

\* a dropped guard whose file handle stays open, with its lock
drop_guard_keeps_lock(be, holder, r) == holder

\* A guard dropped without unlock: FileStateGuard owns the File of its client
\* (file-state lib.rs:93, 110-112), so the handle is closed and its advisory
\* lock goes with it; DdbStateGuard has nothing to release
drop_guard(be, holder, r) ==
    IF be = "File" /\ holder = r THEN NoSubject ELSE holder

\* Read::read_to_end from the cursor of the handle
read_to_end(content, pos) ==
    [bytes |-> SubSeq(content, pos + 1, Len(content)),
     pos |-> IF pos > Len(content) THEN pos ELSE Len(content)]

\* Write::write_all at the cursor of the handle: overwrites, then extends
write_all(content, pos, bytes) ==
    [content |-> SubSeq(content, 1, pos) \o bytes
                     \o SubSeq(content, pos + Len(bytes) + 1, Len(content)),
     pos |-> pos + Len(bytes)]

\* StateClient::fetch: seek_start and read_to_end (file-state lib.rs:126-136);
\* get_item and its payload, empty without an item (dynamodb lib.rs:222-253)
fetch(be, content, pos) ==
    IF be = "File" THEN read_to_end(content, 0) ELSE [bytes |-> content, pos |-> pos]

\* update writing over the old content without set_len(0)
update_without_truncate(be, content, pos, state) ==
    IF be = "File" THEN write_all(content, 0, state) ELSE [content |-> state, pos |-> pos]

\* StateClient::update: seek to 0, set_len(0), write_all (file-state
\* lib.rs:138-156); update_item SET payload (dynamodb lib.rs:255-278)
update(be, content, pos, state) ==
    IF be = "File" THEN write_all(<<>>, 0, state) ELSE [content |-> state, pos |-> pos]

\* r has a guard that was neither unlocked nor dropped
Alive(r) == subj[r].pc \in {"locked", "built", "update", "unlock"}

\* Bytes a client of the storage test suite writes (migrate-state-test
\* lib.rs:48), in two lengths
ClientBytes == {<<"42">>, <<"42", "42", "42">>}

\* Configurations of the engine runs that share the storage
EngineLists == {<<NamePool[1]>>, <<NamePool[1], NamePool[2]>>}
EngineSelections ==
    {[dir |-> "Up", inclusive_bound |-> NoBound],
     [dir |-> "Down", inclusive_bound |-> NamePool[1]]}

\* The storage starts untouched, behind either backend
StorageInit ==
    /\ backend \in {"File", "Ddb"}
    /\ StorageIdle
    /\ store = <<>>
    /\ EngineFresh

\* build, lib.rs:128-132: an engine run calls state_lock.lock(force_lock)
EngineLock(r, force, migs, sel) ==
    /\ subj[r].pc = "idle"
    /\ subj' = [subj EXCEPT ![r] = [@ EXCEPT !.pc = "waiting", !.role = "engine",
                                              !.force = force, !.migrations = migs,
                                              !.selection = sel]]
    /\ UNCHANGED <<backend, disk, flock, written>>
    /\ UNCHANGED engine_vars

\* migrate-state-test lib.rs:42, 63: a client calls lock(force)
ClientLock(r, force) ==
    /\ subj[r].pc = "idle"
    /\ subj' = [subj EXCEPT ![r] = [@ EXCEPT !.pc = "waiting", !.role = "client",
                                              !.force = force]]
    /\ UNCHANGED <<backend, disk, flock, written>>
    /\ UNCHANGED engine_vars

\* The lock call of r resolves with a guard (file-state lib.rs:78-89, dynamodb
\* lib.rs:193-197); rivals records the guards of others alive at that moment
LockResolve(r) ==
    /\ subj[r].pc = "waiting"
    /\ lock_resolves(backend, subj[r].force, flock)
    /\ flock' = lock_taken(backend, flock, r)
    /\ subj' = [subj EXCEPT ![r] = [@ EXCEPT !.pc = "locked",
                                              !.rivals = {q \in Subjects \ {r} : Alive(q)}]]
    /\ UNCHANGED <<backend, disk, written>>
    /\ UNCHANGED engine_vars

\* migrate-state-test lib.rs:45, 50: client.fetch()
ClientFetch(r) ==
    /\ subj[r].pc = "locked"
    /\ subj[r].role = "client"
    /\ LET f == fetch(backend, disk, subj[r].pos)
       IN  subj' = [subj EXCEPT ![r] = [@ EXCEPT !.got = f.bytes, !.want = written.last,
                                                  !.pos = f.pos]]
    /\ UNCHANGED <<backend, disk, flock, written>>
    /\ UNCHANGED engine_vars

\* migrate-state-test lib.rs:49: client.update(bytes)
ClientUpdate(r, bytes) ==
    /\ subj[r].pc = "locked"
    /\ subj[r].role = "client"
    /\ LET u == update(backend, disk, subj[r].pos, bytes)
       IN  /\ disk' = u.content
           /\ subj' = [subj EXCEPT ![r] = [@ EXCEPT !.pos = u.pos]]
    /\ written' = [last |-> bytes, prev |-> written.last]
    /\ UNCHANGED <<backend, flock>>
    /\ UNCHANGED engine_vars

\* migrate-state-test lib.rs:55, 80: guard.unlock()
ClientUnlock(r) ==
    /\ subj[r].pc = "locked"
    /\ subj[r].role = "client"
    /\ flock' = unlock(backend, flock, r)
    /\ subj' = [subj EXCEPT ![r] = [@ EXCEPT !.pc = "done"]]
    /\ UNCHANGED <<backend, disk, written>>
    /\ UNCHANGED engine_vars

\* r's build gives up: the error is returned and the guard is dropped with
\* the builder's locals (lib.rs:133-160, every `?` after the lock)
build_fails(r, err) ==
    /\ subj' = [subj EXCEPT ![r] = [@ EXCEPT !.pc = "build_failed",
                                              !.build_result = err]]
    /\ flock' = drop_guard(backend, flock, r)

\* build after the lock, lib.rs:133-173: fetch, decode, diff and selection
EngineBuild(r, fetch_ok) ==
    /\ subj[r].pc = "locked"
    /\ subj[r].role = "engine"
    /\ LET f == fetch(backend, disk, subj[r].pos)
           dec == decode(f.bytes)
           d == diff(subj[r].migrations, dec.applied_migrations)
           s == select(d, subj[r].selection)
       IN  IF ~fetch_ok
           THEN build_fails(r, [kind |-> "StateFetch"])
           ELSE IF ~dec.ok
           THEN build_fails(r, [kind |-> "StateDecode", read_state |-> dec.read_state])
           ELSE IF ~d.ok
           THEN build_fails(r, [kind |-> "InconsistentMigrationScripts"])
           ELSE IF ~s.ok
           THEN build_fails(r, s.err)
           ELSE /\ subj' = [subj EXCEPT ![r] =
                               [@ EXCEPT !.pc = "built", !.pos = f.pos,
                                         !.got = f.bytes, !.want = written.last,
                                         !.applied = d.old_list, !.kind = s.kind,
                                         !.build_result = Ok]]
                /\ UNCHANGED flock
    /\ UNCHANGED <<backend, disk, written>>
    /\ UNCHANGED engine_vars

\* try_exec, lib.rs:279-300: one migration of r's plan, recorded in the state
\* and run; a failing script ends the loop
EngineScript(r, script_ok) ==
    /\ subj[r].pc = "built"
    /\ subj[r].cursor < Len(subj[r].kind.migrations)
    /\ LET name == current_migration(subj[r].kind, subj[r].cursor)
           t == touch_state(subj[r].applied, subj[r].kind, name)
       IN  subj' = [subj EXCEPT ![r] =
                       IF t.panicked
                       THEN [@ EXCEPT !.pc = "panicked"]
                       ELSE IF script_ok
                       THEN [@ EXCEPT !.applied = t.applied, !.cursor = @ + 1]
                       ELSE [@ EXCEPT !.applied = t.applied, !.pc = "update"]]
    /\ UNCHANGED <<backend, disk, flock, written>>
    /\ UNCHANGED engine_vars

\* try_exec, lib.rs:279: no migration of r's plan is left
EngineLoopEnd(r) ==
    /\ subj[r].pc = "built"
    /\ subj[r].cursor = Len(subj[r].kind.migrations)
    /\ subj' = [subj EXCEPT ![r] = [@ EXCEPT !.pc = "update"]]
    /\ UNCHANGED <<backend, disk, flock, written>>
    /\ UNCHANGED engine_vars

\* exec, lib.rs:248-256: r saves its encoded state
EngineUpdate(r, update_ok) ==
    /\ subj[r].pc = "update"
    /\ LET u == update(backend, disk, subj[r].pos, encode(subj[r].applied))
       IN  IF update_ok
           THEN /\ disk' = u.content
                /\ written' = [last |-> encode(subj[r].applied), prev |-> written.last]
                /\ subj' = [subj EXCEPT ![r] = [@ EXCEPT !.pc = "unlock", !.pos = u.pos]]
           ELSE /\ subj' = [subj EXCEPT ![r] = [@ EXCEPT !.pc = "unlock"]]
                /\ UNCHANGED <<disk, written>>
    /\ UNCHANGED <<backend, flock>>
    /\ UNCHANGED engine_vars

\* exec, lib.rs:258-262: r unlocks its guard
EngineUnlock(r) ==
    /\ subj[r].pc = "unlock"
    /\ flock' = unlock(backend, flock, r)
    /\ subj' = [subj EXCEPT ![r] = [@ EXCEPT !.pc = "done"]]
    /\ UNCHANGED <<backend, disk, written>>
    /\ UNCHANGED engine_vars

StorageNext ==
    \/ \E r \in Subjects, force \in BOOLEAN, migs \in EngineLists,
          sel \in EngineSelections : EngineLock(r, force, migs, sel)
    \/ \E r \in Subjects, force \in BOOLEAN : ClientLock(r, force)
    \/ \E r \in Subjects : LockResolve(r)
    \/ \E r \in Subjects : ClientFetch(r)
    \/ \E r \in Subjects, bytes \in ClientBytes : ClientUpdate(r, bytes)
    \/ \E r \in Subjects : ClientUnlock(r)
    \/ \E r \in Subjects, fetch_ok \in BOOLEAN : EngineBuild(r, fetch_ok)
    \/ \E r \in Subjects, script_ok \in BOOLEAN : EngineScript(r, script_ok)
    \/ \E r \in Subjects : EngineLoopEnd(r)
    \/ \E r \in Subjects, update_ok \in BOOLEAN : EngineUpdate(r, update_ok)
    \/ \E r \in Subjects : EngineUnlock(r)

StorageSpec == StorageInit /\ [][StorageNext]_vars


\* ===================================================================== diff
\* The persisted list P handed to diff and the configured list C
persisted == decode(fetched).applied_migrations
configured == migrations

\* diff has run in this build (the lock, the fetch and the decode succeeded)
DiffRan == build_result.kind \in {"Ok", "InconsistentMigrationScripts", "UnknownMigration"}

IsSuffix(s, list) ==
    /\ Len(s) <= Len(list)
    /\ SubSeq(list, Len(list) - Len(s) + 1, Len(list)) = s

IsPrefix(s, list) ==
    /\ Len(s) <= Len(list)
    /\ SubSeq(list, 1, Len(s)) = s

\* C = S ++ A split after the j-th configured entry, S a suffix of P and
\* A without any name of P
SplitsAt(j) ==
    /\ IsSuffix(SubSeq(configured, 1, j), persisted)
    /\ names_of(SubSeq(configured, j + 1, Len(configured))) \cap names_of(persisted) = {}

\* C1: whenever C = S ++ A with S a non-empty suffix of P and A free of the
\* names of P, diff succeeds with pruned = P without S, completed = S and
\* pending = A, each in the original order.
C1_SuffixThenNew ==
    DiffRan =>
        \A j \in 1..Len(configured) :
            SplitsAt(j) =>
                /\ migrations_diff.ok
                /\ migrations_diff.pruned = SubSeq(persisted, 1, Len(persisted) - j)
                /\ migrations_diff.completed = SubSeq(configured, 1, j)
                /\ migrations_diff.pending = SubSeq(configured, j + 1, Len(configured))

\* the smoke-test shape: something pruned, something completed, something pending
C1_Witness ==
    /\ DiffRan
    /\ \E j \in 1..Len(configured) :
           SplitsAt(j) /\ j < Len(persisted) /\ j < Len(configured)
    /\ migrations_diff.pruned # <<>>
    /\ migrations_diff.completed # <<>>
    /\ migrations_diff.pending # <<>>

\* C2: whenever C = P ++ A with A free of the names of P (P and A may be
\* empty), diff succeeds with pruned = [], completed = P and pending = A.
C2_AppendOnly ==
    (/\ DiffRan
     /\ IsPrefix(persisted, configured)
     /\ names_of(SubSeq(configured, Len(persisted) + 1, Len(configured)))
            \cap names_of(persisted) = {})
        => /\ migrations_diff.ok
           /\ migrations_diff.pruned = <<>>
           /\ migrations_diff.completed = persisted
           /\ migrations_diff.pending =
                  SubSeq(configured, Len(persisted) + 1, Len(configured))

\* both the first-ever run and an append to a non-empty history occur
C2_Witness ==
    /\ DiffRan
    /\ persisted # <<>>
    /\ IsPrefix(persisted, configured)
    /\ Len(configured) > Len(persisted)
    /\ migrations_diff.pending # <<>>

C2_WitnessFirstRun ==
    /\ DiffRan
    /\ persisted = <<>>
    /\ fetched = <<>>
    /\ configured # <<>>
    /\ migrations_diff.pending = configured

\* C3 (as claimed): for every suffix S of P, the empty one included, C := S
\* gives pruned = P without S, completed = S, pending = []; an empty C
\* prunes the whole of P.
C3_PruneOnly_Claimed ==
    (DiffRan /\ IsSuffix(configured, persisted))
        => /\ migrations_diff.ok
           /\ migrations_diff.pruned =
                  SubSeq(persisted, 1, Len(persisted) - Len(configured))
           /\ migrations_diff.completed = configured
           /\ migrations_diff.pending = <<>>

\* C4 (as claimed): diff accepts C only if C = S ++ A with S a suffix of P
\* and A free of the names of P; on every successful diff no pending name
\* occurs in P and no pruned name occurs in C.
C4_AcceptsOnlySuffixThenNew_Claimed ==
    (DiffRan /\ migrations_diff.ok)
        => /\ \E j \in 0..Len(configured) : SplitsAt(j)
           /\ names_of(migrations_diff.pending) \cap names_of(persisted) = {}
           /\ names_of(migrations_diff.pruned) \cap names_of(configured) = {}

\* P' of the claim: P from the position of C's first name, all of P if that
\* name is not in P (or C has no first name)
persisted_from_first ==
    IF configured # <<>> /\ configured[1] \in names_of(persisted)
    THEN LET k == CHOOSE i \in 1..Len(persisted) : persisted[i] = configured[1]
         IN  SubSeq(persisted, k, Len(persisted))
    ELSE persisted

MismatchAtCommonPosition ==
    \E i \in 1..Len(configured) :
        i <= Len(persisted_from_first) /\ persisted_from_first[i] # configured[i]

\* C5: if C and P' differ at a common position, or P' is strictly longer than
\* C, build fails with InconsistentMigrationScripts and no diff or plan exists.
C5_InconsistentRejected ==
    (DiffRan /\ (MismatchAtCommonPosition
                    \/ Len(persisted_from_first) > Len(configured)))
        => /\ build_result = [kind |-> "InconsistentMigrationScripts"]
           /\ ~migrations_diff.ok
           /\ pc = "build_failed"
           /\ kind = NoKind

\* an interior or tail removal: P' is longer than a non-empty C that matches it
C5_Witness ==
    /\ DiffRan
    /\ configured # <<>>
    /\ ~MismatchAtCommonPosition
    /\ Len(persisted_from_first) > Len(configured)
    /\ build_result.kind = "InconsistentMigrationScripts"

C5_WitnessMismatch ==
    /\ DiffRan
    /\ MismatchAtCommonPosition
    /\ Len(persisted_from_first) = Len(configured)
    /\ build_result.kind = "InconsistentMigrationScripts"

\* C6: after a successful diff, pruned ++ completed = P, completed ++ pending
\* = C, and the list passed by reference holds exactly completed; the plan's
\* in-memory state starts from it.
C6_DiffPartitions ==
    (DiffRan /\ migrations_diff.ok)
        => /\ migrations_diff.pruned \o migrations_diff.completed = persisted
           /\ migrations_diff.completed \o migrations_diff.pending = configured
           /\ migrations_diff.old_list = migrations_diff.completed
           /\ pc = "built" => applied_migrations = migrations_diff.completed

C6_Witness ==
    /\ pc = "built"
    /\ migrations_diff.ok
    /\ migrations_diff.pruned # <<>>
    /\ migrations_diff.completed # <<>>
    /\ applied_migrations = migrations_diff.completed


\* ============================================================ plan and exec
\* 1-based place of a name in a list of unique names
place(list, name) == CHOOSE i \in 1..Len(list) : list[i] = name

\* the applied list the state storage holds
stored == decode(store).applied_migrations

UpPlanAsSelected ==
    (build_result = Ok /\ selection.dir = "Up")
        => IF selection.inclusive_bound = NoBound
           THEN kind = [dir |-> "Up", migrations |-> migrations_diff.pending]
           ELSE LET i == place(migrations_diff.pending, selection.inclusive_bound)
                IN  /\ kind = [dir |-> "Up",
                               migrations |-> SubSeq(migrations_diff.pending, 1, i)]
                    /\ left_pending = SubSeq(migrations_diff.pending, i + 1,
                                             Len(migrations_diff.pending))

UpExecSucceeded == pc = "done" /\ exec_result = Ok /\ kind.dir = "Up"

\* C7 (as claimed): an Up plan is pending[0..=idx] (all of pending without a
\* bound), left_pending the rest, and after a successful exec the persisted
\* applied list is its value before exec followed by the plan's names.
C7_UpPlanAppends_Claimed ==
    /\ UpPlanAsSelected
    /\ UpExecSucceeded => stored = persisted \o kind.migrations

\* C7 (amended): as claimed, except that the persisted list after a successful
\* exec is its value before exec without the pruned prefix, followed by the
\* plan's names in plan order.
C7_UpPlanAppends ==
    /\ UpPlanAsSelected
    /\ UpExecSucceeded =>
           stored = SubSeq(persisted, Len(pruned) + 1, Len(persisted)) \o kind.migrations

\* a bounded Up that ran two scripts and left one pending
C7_Witness ==
    /\ UpExecSucceeded
    /\ selection.inclusive_bound # NoBound
    /\ Len(kind.migrations) >= 2
    /\ left_pending # <<>>
    /\ store = encode(kind.migrations)

\* C8: a Down plan is completed[idx..], left_completed is completed[..idx],
\* and after a successful exec the persisted applied list is exactly
\* completed[..idx].
C8_DownPlanRollsBack ==
    (build_result = Ok /\ selection.dir = "Down")
        => LET i == place(migrations_diff.completed, selection.inclusive_bound)
           IN  /\ kind = [dir |-> "Down",
                          migrations |-> SubSeq(migrations_diff.completed, i,
                                                Len(migrations_diff.completed))]
               /\ left_completed = SubSeq(migrations_diff.completed, 1, i - 1)
               /\ (pc = "done" /\ exec_result = Ok)
                      => stored = SubSeq(migrations_diff.completed, 1, i - 1)

\* a Down that rolled two migrations back and left one applied
C8_Witness ==
    /\ pc = "done"
    /\ exec_result = Ok
    /\ kind.dir = "Down"
    /\ Len(kind.migrations) >= 2
    /\ left_completed # <<>>
    /\ stored = left_completed

Rejected(slice) ==
    build_result = [kind |-> "UnknownMigration",
                    name |-> selection.inclusive_bound, available |-> slice]

\* C9 (as claimed): build fails with UnknownMigration{name, available} when
\* the bound names no entry of the relevant slice, available being the names
\* of that slice in order; so an Up bound naming a completed or pruned
\* migration and a Down bound naming a pending migration are rejected.
C9_UnknownBoundRejected_Claimed ==
    (DiffRan /\ migrations_diff.ok)
        => /\ (/\ selection.dir = "Up"
               /\ selection.inclusive_bound # NoBound
               /\ selection.inclusive_bound \notin names_of(migrations_diff.pending))
                  => Rejected(migrations_diff.pending)
           /\ (/\ selection.dir = "Down"
               /\ selection.inclusive_bound \notin names_of(migrations_diff.completed))
                  => Rejected(migrations_diff.completed)
           /\ (/\ selection.dir = "Up"
               /\ selection.inclusive_bound \in
                      names_of(migrations_diff.completed) \cup names_of(migrations_diff.pruned))
                  => Rejected(migrations_diff.pending)
           /\ (/\ selection.dir = "Down"
               /\ selection.inclusive_bound \in names_of(migrations_diff.pending))
                  => Rejected(migrations_diff.completed)

IsCall(i) == trace[i].ev = "call"

\* C10: within one exec the scripts run strictly one after another, each plan
\* entry at most once, in list order for Up and in reverse list order for
\* Down, and a script is invoked only after the previous one returned
\* without an error.
C10_SequentialInOrder ==
    /\ \A i \in 1..Len(trace) :
           /\ trace[i].ev = (IF i % 2 = 1 THEN "call" ELSE "ret")
           /\ trace[i].name \in names_of(kind.migrations)
           /\ trace[i].dir = kind.dir
           /\ i % 2 = 0 => trace[i].name = trace[i - 1].name
           /\ (trace[i].ev = "ret" /\ ~trace[i].ok) => i = Len(trace)
    /\ \A i, j \in 1..Len(trace) :
           (IsCall(i) /\ IsCall(j) /\ i < j)
               => IF kind.dir = "Up"
                  THEN place(kind.migrations, trace[i].name)
                           < place(kind.migrations, trace[j].name)
                  ELSE place(kind.migrations, trace[i].name)
                           > place(kind.migrations, trace[j].name)
    /\ (pc = "script") <=> (Len(trace) % 2 = 1)

\* a Down exec in which a second script was invoked after the first returned
C10_Witness ==
    /\ kind.dir = "Down"
    /\ Len(trace) >= 3
    /\ trace[1].name = kind.migrations[Len(kind.migrations)]
    /\ trace[2].ok

\* the i-th script event is a script returning an error
FailedRet(i) == trace[i].ev = "ret" /\ ~trace[i].ok

ExecFailed == exec_result = [kind |-> "Err"]

\* C11: when a script's up or down returns an error, no further script of the
\* plan is invoked in that exec, and exec returns PlanExecError whose
\* errors[0] is ExecMigrationScript carrying that error.
C11_ScriptErrorAborts ==
    \A i \in 1..Len(trace) :
        FailedRet(i)
            => /\ i = Len(trace)
               /\ pc \in {"update", "unlock", "done"}
               /\ errors # <<>>
               /\ errors[1] = [kind |-> "ExecMigrationScript", source |-> trace[i].name]
               /\ pc = "done" => ExecFailed

\* the first script of a longer plan failed and exec returned
C11_Witness ==
    /\ pc = "done"
    /\ Len(trace) = 2
    /\ FailedRet(2)
    /\ cursor + 1 < Len(kind.migrations)
    /\ ExecFailed

\* the calls of one operation among the update and unlock calls of this exec
Calls(op) == {i \in 1..Len(state_calls) : state_calls[i].op = op}

C13_UpdateOnceOnExit ==
    /\ pc \in {"loop", "script", "update"} => state_calls = <<>>
    /\ pc \in {"unlock", "done"}
           => /\ Calls("update") = {1}
              /\ state_calls[1].bytes = encode(applied_migrations)
              /\ state_calls[1].at = Len(trace)
              /\ state_calls[1].ok => store = state_calls[1].bytes
              /\ \A j \in Calls("unlock") : j = 2

\* the second script failed, and the state with both names was stored once
C13_Witness ==
    /\ pc = "done"
    /\ Len(trace) = 4
    /\ FailedRet(4)
    /\ Calls("update") = {1}
    /\ state_calls[1].ok
    /\ Len(applied_migrations) >= 2
    /\ store = encode(applied_migrations)

\* the failure of the script loop, from what the scripts and providers answered
loop_error ==
    IF trace # <<>> /\ FailedRet(Len(trace))
    THEN <<[kind |-> "ExecMigrationScript", source |-> trace[Len(trace)].name]>>
    ELSE IF lookups # <<>> /\ lookups[Len(lookups)].answer = "err"
    THEN <<[kind |-> "CreateMigrationCtx",
            run_mode |-> lookups[Len(lookups)].run_mode,
            ctx_type |-> lookups[Len(lookups)].ctx_type]>>
    ELSE <<>>

\* the failure of update or unlock, from what the state storage answered
call_error(op, error_kind) ==
    IF \E i \in Calls(op) : ~state_calls[i].ok
    THEN <<[kind |-> error_kind]>>
    ELSE <<>>

\* C14: exec returns Ok iff neither the script loop, nor update, nor unlock
\* failed; otherwise it returns PlanExecError whose errors are the failures in
\* the order [loop error, UpdateState, UnlockState], each present only if it
\* occurred, so that a loop error is always errors[0].
C14_ErrorsInFixedOrder ==
    pc = "done"
        => /\ errors = loop_error \o call_error("update", "UpdateState")
                                  \o call_error("unlock", "UnlockState")
           /\ exec_result = IF /\ loop_error = <<>>
                               /\ call_error("update", "UpdateState") = <<>>
                               /\ call_error("unlock", "UnlockState") = <<>>
                            THEN Ok
                            ELSE [kind |-> "Err"]

\* a script, update and unlock all failed
C14_Witness ==
    /\ pc = "done"
    /\ Len(errors) = 3
    /\ errors[1].kind = "ExecMigrationScript"
    /\ errors[3].kind = "UnlockState"

\* exec returned from an Up plan whose entries 0..k-1 succeeded and whose k-th
\* up failed; k is cursor
KthUpFailed ==
    /\ pc = "done"
    /\ kind.dir = "Up"
    /\ trace # <<>>
    /\ FailedRet(Len(trace))
    /\ Len(trace) = 2 * (cursor + 1)

succeeded == {trace[i].name : i \in {j \in 1..Len(trace) : trace[j].ev = "ret" /\ trace[j].ok}}

Keep(name) == name \in succeeded

Drop(name) == name \notin succeeded

\* C16 (as claimed), for one build/exec run on top of the completed migrations:
\* the persisted applied list at rest is the migrations whose up completed
\* successfully minus those whose down completed successfully, in forward
\* order; a failed or skipped up is not listed, a failed down is still listed.
C16_AppliedMeansSucceeded_Claimed ==
    (pc = "done" /\ state_calls[1].ok)
        => stored = IF kind.dir = "Up"
                    THEN migrations_diff.completed \o SelectSeq(kind.migrations, Keep)
                    ELSE SelectSeq(migrations_diff.completed, Drop)

\* the lookups of this exec that got the sentinel for a missing no-commit mode
Skips == {i \in 1..Len(lookups) : lookups[i].res = "CtxLacksNoCommitMode"}

Invoked(name) == \E i \in 1..Len(trace) : trace[i].name = name

\* C17 (as claimed): in an Up plan run in NoCommit mode, when the registry
\* reports CtxLacksNoCommitMode for an entry, the executor skips that entry,
\* continues with the next entry, and the skipped entry's name is not appended
\* to the persisted applied list.
C17_SkippedNotPersisted_Claimed ==
    \A i \in Skips :
        kind.dir = "Up"
            => /\ lookups[i].run_mode = "NoCommit"
               /\ ~Invoked(lookups[i].name)
               /\ i = Len(lookups) => (pc \in {"loop", "update", "unlock", "done"}
                                       /\ loop_error = <<>>)
               /\ (pc = "done" /\ state_calls[1].ok)
                      => lookups[i].name \notin names_of(stored)

\* C18: CtxLacksNoCommitMode never appears in the errors of a PlanExecError:
\* for any plan and any mix of providers that decline no-commit mode, each
\* such skip is converted to success, and exec returns Ok when nothing else
\* fails.
C18_SentinelNeverReported ==
    /\ \A i \in 1..Len(errors) : errors[i].kind # "CtxLacksNoCommitMode"
    /\ \A i \in Skips : i = Len(lookups) => pc \in {"loop", "update", "unlock", "done"}
    /\ (/\ pc = "done"
        /\ Skips # {}
        /\ loop_error = <<>>
        /\ \A j \in 1..Len(state_calls) : state_calls[j].ok)
           => exec_result = Ok

\* a no-commit exec that skipped one migration, ran another and returned Ok
C18_Witness ==
    /\ pc = "done"
    /\ exec_result = Ok
    /\ Skips # {}
    /\ \E j \in 1..Len(lookups) : lookups[j].res = "ctx"

\* the lookups of one context type, and those that called its provider
LookupsOf(c) == {i \in 1..Len(lookups) : lookups[i].ctx_type = c}

ProviderCalls(c) == {i \in LookupsOf(c) : lookups[i].answer # "n/a"}

\* C19: for any sequence of get_mut calls during a plan, the provider of each
\* context type is invoked at most once: once the entry is Init the context is
\* returned to every later migration of that type, and once it is
\* CtxLacksNoCommitMode every later lookup returns the sentinel, both without
\* calling the provider.
C19_ProviderCalledOnce ==
    \A c \in CtxTypes :
        /\ Cardinality(ProviderCalls(c)) <= 1
        /\ (ctx_registry[c] = "Uninit") <=> (LookupsOf(c) = {})
        /\ \A i, j \in LookupsOf(c) :
               i < j => /\ lookups[i].res \in {"ctx", "CtxLacksNoCommitMode"}
                        /\ lookups[j].res = lookups[i].res
                        /\ lookups[j].answer = "n/a"

\* two migrations of one context type ran on the context created for the first
C19_Witness ==
    \E i, j \in 1..Len(lookups) :
        /\ i < j
        /\ lookups[i].ctx_type = lookups[j].ctx_type
        /\ lookups[i].answer = "ok"
        /\ lookups[j].res = "ctx"
        /\ Invoked(lookups[j].name)

\* C20: when a provider's constructor returns an error (commit mode, or
\* no-commit mode where the provider attempted creation), get_mut reports
\* CreateMigrationCtx with that run mode and context type, the migration's
\* script is not invoked, the loop is aborted, and the error is errors[0] of
\* the PlanExecError.
C20_CtxErrorAborts ==
    \A i \in 1..Len(lookups) :
        lookups[i].answer = "err"
            => /\ lookups[i].res = "CreateMigrationCtx"
               /\ lookups[i].run_mode = run_mode
               /\ ~Invoked(lookups[i].name)
               /\ i = Len(lookups)
               /\ pc \in {"update", "unlock", "done"}
               /\ errors # <<>>
               /\ errors[1] = [kind |-> "CreateMigrationCtx",
                               run_mode |-> run_mode,
                               ctx_type |-> lookups[i].ctx_type]
               /\ pc = "done" => ExecFailed

\* a no-commit exec ran one script, then a provider failed with an entry left
C20_Witness ==
    /\ pc = "done"
    /\ run_mode = "NoCommit"
    /\ Len(trace) = 2
    /\ Len(lookups) = 2
    /\ lookups[2].answer = "err"
    /\ cursor + 1 < Len(kind.migrations)
    /\ ExecFailed

\* the run is a successful Down{inclusive_bound = C[0].name} + exec that
\* follows a successful Up{None} + exec over the same configured list C
DownAfterUpAll ==
    /\ pc = "done"
    /\ exec_result = Ok
    /\ prev_up_all # <<>>
    /\ migrations = prev_up_all
    /\ selection = [dir |-> "Down", inclusive_bound |-> migrations[1]]

\* C21: for any non-empty configured list C and any consistent persisted list
\* P, running build(Up{None}) + exec successfully and then
\* build(Down{inclusive_bound = C[0].name}) + exec successfully leaves
\* applied_migrations empty, in memory and as persisted.
C21_UpThenDownEmpties ==
    DownAfterUpAll => (applied_migrations = <<>> /\ stored = <<>>)

\* two migrations were applied by Up{None} and both rolled back by the Down
C21_Witness ==
    /\ DownAfterUpAll
    /\ Len(migrations) >= 2
    /\ Len(trace) = 2 * Len(migrations)
    /\ store = encode(<<>>)

DecodeRan ==
    build_result.kind \in {"Ok", "StateDecode", "InconsistentMigrationScripts",
                           "UnknownMigration"}

\* C28: State::decode of the empty byte sequence succeeds and returns the
\* state with an empty applied_migrations list, so a first-ever build against
\* an uninitialised store treats every configured migration as pending.
C28_EmptyDecodesToEmpty ==
    (DecodeRan /\ fetched = <<>>)
        => /\ build_result.kind # "StateDecode"
           /\ migrations_diff.ok
           /\ migrations_diff.pruned = <<>>
           /\ migrations_diff.completed = <<>>
           /\ migrations_diff.pending = migrations

\* a first build over two configured migrations on an empty store
C28_Witness ==
    /\ build_result = Ok
    /\ fetched = <<>>
    /\ Len(migrations) = 2
    /\ migrations_diff.pending = migrations
    /\ kind = [dir |-> "Up", migrations |-> migrations]

C30_ForeignBytesRejected ==
    /\ fetched \in ForeignStores => pc \in {"fetched", "build_failed"}
    /\ (DecodeRan /\ fetched \in ForeignStores)
           => /\ build_result = [kind |-> "StateDecode", read_state |-> fetched]
              /\ migrations_diff = NoDiff
              /\ trace = <<>>

\* a build over a state written with an unknown version tag failed
C30_Witness ==
    /\ pc = "build_failed"
    /\ fetched = <<"v2", NamePool[1]>>
    /\ build_result.kind = "StateDecode"
    /\ migrations # <<>>

\* --------------------------------------------------- claims on the backends
\* C22: a build that fails after its lock call resolved (fetch error, decode
\* error, inconsistent diff, unknown bound) does not leave the lock held: once
\* build has returned the error, the advisory lock is no longer with that run.
C22_BuildErrorFreesLock ==
    \A r \in Subjects : subj[r].pc = "build_failed" => flock # r

\* A run failed on its bound under the file lock, and the other subject got
\* the lock afterwards
C22_Witness ==
    \E r \in Subjects, q \in Subjects :
        /\ backend = "File"
        /\ subj[r].pc = "build_failed"
        /\ subj[r].build_result.kind = "UnknownMigration"
        /\ subj[q].pc = "locked"
        /\ flock = q

\* r is an engine run between its lock and its unlock, without force
InSpan(r) ==
    /\ subj[r].role = "engine"
    /\ ~subj[r].force
    /\ Alive(r)

\* C23 (as claimed): of two engine runs on one store, both without force, the
\* lock-to-unlock spans never overlap, and what a run has fetched is still what
\* the store holds until that run's own update.
C23_RunsSerialized_Claimed ==
    \A r \in Subjects : \A q \in Subjects \ {r} :
        InSpan(r) /\ subj[q].role = "engine" /\ ~subj[q].force
            => /\ ~Alive(q)
               /\ subj[r].pc \in {"built", "update"}
                      => fetch(backend, disk, subj[r].pos).bytes = subj[r].got

\* C24 (as claimed): with either backend, a lock call without force resolves
\* only when no other guard is alive.
C24_LockWaitsForGuard_Claimed ==
    \A r \in Subjects : Alive(r) /\ ~subj[r].force => subj[r].rivals = {}

\* C25 (as claimed): a lock call with force never waits: it can resolve in
\* every state, whoever has a guard.
C25_ForceNeverWaits_Claimed ==
    \A r \in Subjects :
        subj[r].pc = "waiting" /\ subj[r].force
            => lock_resolves(backend, subj[r].force, flock)

\* C26: whatever updates were made, a fetch returns exactly the bytes of the most
\* recent update, and nothing when no update was ever made.
C26_FetchReturnsLastUpdate ==
    \A r \in Subjects : subj[r].got = subj[r].want

\* A client read the file back after a short update that followed a longer one
C26_Witness ==
    \E r \in Subjects :
        /\ backend = "File"
        /\ subj[r].role = "client"
        /\ subj[r].got = <<"42">>
        /\ written = [last |-> <<"42">>, prev |-> <<"42", "42", "42">>]

\* ------------------------------------------------ claims on the whole engine
\* C31: in a Down exec the entry popped from the tail of applied_migrations
\* exists and has the name of the migration about to be rolled back: whenever
\* the loop is about to take the next migration of a Down plan, the pop and its
\* assert_eq succeed.
C31_DownPopMatches ==
    (pc = "loop" /\ kind.dir = "Down" /\ cursor < Len(kind.migrations))
        => /\ applied_migrations # <<>>
           /\ applied_migrations[Len(applied_migrations)]
                  = current_migration(kind, cursor)
           /\ ~touch_state(applied_migrations, kind,
                           current_migration(kind, cursor)).panicked

\* a Down plan of two migrations ran to its end on a state that had a pruned
\* entry in front
C31_Witness ==
    /\ pc = "done"
    /\ kind.dir = "Down"
    /\ Len(kind.migrations) = 2
    /\ cursor = 2
    /\ pruned # <<>>

\* exec returned from a Down plan
DownExecDone == pc = "done" /\ kind.dir = "Down"

\* the names of completed in front of a name of completed
before(name) ==
    SubSeq(migrations_diff.completed, 1, place(migrations_diff.completed, name) - 1)

\* the entries of this exec whose script failed or that a no-commit run skipped
FailedOrSkipped ==
    {trace[i].name : i \in {j \in 1..Len(trace) : FailedRet(j)}}
        \cup {lookups[i].name : i \in Skips}

touched(n) ==
    IF kind.dir = "Up"
    THEN migrations_diff.old_list \o SubSeq(kind.migrations, 1, n)
    ELSE SubSeq(migrations_diff.old_list, 1, Len(migrations_diff.old_list) - n)

\* C33: the state exec writes does not depend on the run mode: the bytes given
\* to update are determined by the plan and by how far the loop got, in
\* NoCommit mode as in Commit mode, and a successful no-commit Up run persists
\* every planned migration as applied.
C33_UpdateIgnoresRunMode ==
    /\ pc \in {"unlock", "done"}
           => state_calls[1].bytes = encode(touched(Len(lookups)))
    /\ (UpExecSucceeded /\ state_calls[1].ok)
           => stored = migrations_diff.completed \o kind.migrations

\* a no-commit Up run of two migrations, one of them skipped, stored both
C33_Witness ==
    /\ UpExecSucceeded
    /\ run_mode = "NoCommit"
    /\ Skips # {}
    /\ Len(kind.migrations) = 2
    /\ stored = migrations_diff.completed \o kind.migrations

\* the names in the bytes exec gave to update
updated_names == names_of(decode(state_calls[1].bytes).applied_migrations)

\* C34 (as claimed): the names diff classified as pruned are removed from the
\* persisted state by the next exec: the bytes passed to update contain no
\* pruned name, and after a successful Up{None} exec the persisted applied list
\* is exactly the configured list, in order.
C34_PrunedLeaveTheState_Claimed ==
    /\ pc \in {"unlock", "done"} => updated_names \cap names_of(pruned) = {}
    /\ (UpExecSucceeded /\ selection.inclusive_bound = NoBound /\ state_calls[1].ok)
           => stored = configured

\* C35: build never calls client.update: no step of build, whether it ends in a
\* plan or in any PlanBuildError, changes the bytes the state store holds or
\* records an update call.
C35_BuildLeavesStore ==
    [][(pc \in {"builder", "locked", "fetched"})
           => (store' = store /\ state_calls' = <<>>)]_vars

\* a build that pruned an entry has returned its plan, and the store still
\* holds the bytes it fetched, the pruned entry included
C35_Witness ==
    /\ pc = "built"
    /\ pruned # <<>>
    /\ store = fetched
    /\ state_calls = <<>>

\* this run is build(Up{None}) over the list that the run before it applied
\* with a successful build(Up{None}) + exec in Commit mode
UpAfterUpAll ==
    /\ prev_up_all # <<>>
    /\ prev_run_mode = "Commit"
    /\ migrations = prev_up_all
    /\ selection = [dir |-> "Up", inclusive_bound |-> NoBound]

\* C36: after a successful build(Up{None}) + exec in Commit mode, a second
\* build(Up{None}) with the same configured list yields an empty plan, and its
\* exec invokes no script and writes the same applied list again.
C36_UpTwiceIsIdempotent ==
    UpAfterUpAll
        => /\ build_result = Ok => kind = [dir |-> "Up", migrations |-> <<>>]
           /\ trace = <<>>
           /\ lookups = <<>>
           /\ pc \in {"unlock", "done"}
                  => /\ state_calls[1].bytes = fetched
                     /\ decode(state_calls[1].bytes).applied_migrations = prev_up_all
                     /\ stored = prev_up_all

\* the second Up{None} run over two migrations has returned from exec
C36_Witness ==
    /\ UpAfterUpAll
    /\ Len(migrations) = 2
    /\ pc = "done"
    /\ exec_result = Ok
    /\ stored = migrations

\* C37: when a plan is built and then not executed (the --no-run path),
\* StateGuard::unlock is never invoked on the guard build acquired, it is only
\* dropped with the plan: the only unlock call of the engine is the one in the
\* epilogue of exec, after the update call.
C37_UnrunPlanNeverUnlocks ==
    /\ pc = "displayed" => (guard = "dropped" /\ Calls("unlock") = {})
    /\ guard = "unlocked" => pc = "done"
    /\ \A i \in Calls("unlock") :
           /\ pc = "done"
           /\ i = 2
           /\ state_calls[1].op = "update"

\* a plan with a migration to run was built under the lock, rendered and
\* dropped
C37_Witness ==
    /\ pc = "displayed"
    /\ plan_args.no_run
    /\ kind.migrations # <<>>
    /\ guard = "dropped"

\* C38: every PlanExecError exec returns carries at least one error, so that
\* errors[0] in source() and errors[1..] in Display stay in bounds; exec
\* returns Ok exactly when it collected no error.
C38_ExecErrorNotEmpty ==
    /\ ExecFailed => Len(errors) >= 1
    /\ exec_result = Ok => errors = <<>>
    /\ pc = "done" => exec_result \in {Ok, [kind |-> "Err"]}

\* exec returned an error whose only cause is the failed unlock: errors[1..]
\* is empty
C38_Witness ==
    /\ pc = "done"
    /\ ExecFailed
    /\ Len(errors) = 1
    /\ errors[1].kind = "UnlockState"
    /\ trace # <<>>

\* C39: during an exec get_mut is never called on a registry entry whose
\* provider was consumed by a failed construction: the failure is the last
\* lookup of the exec and ends the loop, so the expect on the taken provider
\* never fires.
C39_TakenProviderNeverAsked ==
    /\ (pc = "loop" /\ cursor < Len(kind.migrations))
           => ctx_registry[ctx_of(current_migration(kind, cursor))] # "UninitTaken"
    /\ \A i \in 1..Len(lookups) :
           /\ lookups[i].res # "panic"
           /\ lookups[i].res = "CreateMigrationCtx"
                  => (i = Len(lookups) /\ pc \in {"update", "unlock", "done"})

\* the context of the first migration could not be created, and a later
\* migration of the plan wanted the same context type
C39_Witness ==
    /\ pc = "done"
    /\ kind.dir = "Up"
    /\ Len(lookups) = 1
    /\ lookups[1].res = "CreateMigrationCtx"
    /\ ctx_registry[lookups[1].ctx_type] = "UninitTaken"
    /\ \E j \in 2..Len(kind.migrations) :
           ctx_of(kind.migrations[j]) = lookups[1].ctx_type

=============================================================================
